---- MODULE Spec2Model ----
(***************************************************************************)
(* Model of the request pipeline of the GfApi client (src/index.js):       *)
(* operation entry points (_get, _getList, _post, _put, _patch,            *)
(* steam_inventory_get), the shared rate limiter awaited by _entry, the    *)
(* transport, and the result normalizers _result and _steamResult with     *)
(* the pagination cursor they write into the caller's query object.        *)
(***************************************************************************)
EXTENDS Integers, Sequences, FiniteSets, TLC

\* ------------------------------------------------------------ bounds
MaxOps == 2          \* operations issued on the client instance
MaxPages == 3        \* pages the list server can present
MaxTime == 1000      \* last instant (ms) the clock reaches
TickMs == 500        \* clock granularity (ms)
MaxBuckets == 2      \* one-time-code periods the clock of the signing runs spans
MaxKeyParts == 3     \* dash-separated parts of an API key

\* ------------------------------------------------- program constants
\* variant: a limiter created with twice the interval
RateIntervalDoubled == 1000 * 2
\* variant: a limiter created with half the interval
RateIntervalHalved == 1000 \div 2
RateInterval == 1000     \* require('promise-ratelimit')(1000)
TotpPeriod == 30         \* secret.period default
TotpDigits == 6          \* secret.digits default

\* ------------------------------------------------------------ state
VARIABLES
    now,            \* Date.now(), ms
    nextPermitted,  \* rate limiter: time of next permitted send
    queue,          \* rate limiter: callers of acquire() not yet granted, oldest first
    ops,            \* the operations invoked on the client, in invocation order
    requests,       \* the transport invocations, in the order they were started
    log,            \* the events handed to the logger, in order
    query,          \* the caller's query object of the list calls
    steamQuery,     \* the caller's query object of the inventory calls
    server,         \* the page chain the listing server presents
    client          \* this.apiKey, this.secret and this.baseUrl, set by the constructor

vars == <<now, nextPermitted, queue, ops, requests, log, query, steamQuery, server,
          client>>

\* ------------------------------------------------------- JS values
\* Every JavaScript value is a record tagged by t.  A property that is
\* absent from an object reads as Undefined.
Undefined == [t |-> "undefined"]
Null == [t |-> "null"]
Arr(s) == [t |-> "array", items |-> s]
Str(s) == [t |-> "string", s |-> s]
Num(n) == [t |-> "number", n |-> n]
Bool(b) == [t |-> "boolean", b |-> b]
\* the continuation URL (a non-empty string) the server hands out for page k
PageUrl(k) == [t |-> "url", page |-> k]

\* an object literal without properties
EmptyObject == [t |-> "object"]

\* how an evaluation ends: with a value, or with an error thrown
Return(v) == [t |-> "return", v |-> v]
Throw(e) == [t |-> "throw", err |-> e]
\* what the engine throws when a property of null or undefined is read
\* and, in strict mode, when a property of a primitive is assigned
TypeError == [t |-> "TypeError"]

\* obj.field: reading a property of null or undefined throws; a property
\* that is not there, or is read from a string, a number or a boolean, is
\* undefined
prop(obj, field) ==
    IF obj.t \in {"undefined", "null"} THEN Throw(TypeError)
    ELSE IF obj.t = "object" /\ field \in DOMAIN obj THEN obj[field]
    ELSE Undefined

Truthy(x) ==
    CASE x.t \in {"undefined", "null"} -> FALSE
      [] x.t = "string" -> x.s # ""
      [] x.t = "number" -> x.n # 0
      [] x.t = "boolean" -> x.b
      [] OTHER -> TRUE

\* ------------------------------------------------------------ Util
\* variant: the length of an array is not looked at
emptyArrayUndefinedOnly(x) == (x.t = "undefined")
emptyArray(x) == (x.t = "undefined") \/ (x.t = "array" /\ Len(x.items) = 0)

isNull(x) == (x.t = "undefined") \/ (x.t = "null")

\* variant: takes the first argument whatever it is
optionsFirst(args) == args[1]
\* variant: falls through to undefined instead of null
optionsUndefined(args) ==
    IF \E i \in 1..Len(args) : ~(args[i].t = "undefined") /\ ~(args[i].t = "null")
    THEN args[CHOOSE i \in 1..Len(args) :
                /\ ~(args[i].t = "undefined") /\ ~(args[i].t = "null")
                /\ \A j \in 1..(i-1) : (args[j].t = "undefined") \/ (args[j].t = "null")]
    ELSE Undefined
\* Picks first argument that is not undefined or null
options(args) ==
    IF \E i \in 1..Len(args) : ~(args[i].t = "undefined") /\ ~(args[i].t = "null")
    THEN args[CHOOSE i \in 1..Len(args) :
                /\ ~(args[i].t = "undefined") /\ ~(args[i].t = "null")
                /\ \A j \in 1..(i-1) : (args[j].t = "undefined") \/ (args[j].t = "null")]
    ELSE Null

\* QueryString.stringify(obj) prefixed by '?' when not empty: the fields
\* of obj that become parameters of the URL (an array has its indexes as
\* keys); stringify gives '' for an object without properties and for a
\* value that is not an object (null, a string)
queryString(obj) ==
    LET keys == CASE obj.t = "object" -> {f \in DOMAIN obj \ {"t"} : obj[f] # Undefined}
                  [] obj.t = "array" -> 0..(Len(obj.items) - 1)
                  [] OTHER -> {}
    IN  IF keys = {} THEN Str("")
        ELSE [t |-> "qs",
              params |-> [k \in keys |-> IF obj.t = "array" THEN obj.items[k + 1]
                                         ELSE obj[k]]]

\* ---------------------------------------------------- credentials
\* An API key is a string, kept as the sequence of its characters.
DocKey == <<"t","e","s","t","-","0","1","2","3","4","5","6","7","8","9",
            "a","b","c","d","e">>

\* the parts keys are made of: the environment names, other names, an
\* identifier, and nothing
KeyWords ==
    {<<"p","r","o","d","u","c","t","i","o","n">>, <<"t","e","s","t">>,
     <<"d","e","v","e","l","o","p","m","e","n","t">>, <<"s","t","a","g","i","n","g">>,
     <<"c","o","n","s","t","r","u","c","t","o","r">>, <<"0","1","2","3">>, <<>>}

RECURSIVE joinDash(_)
joinDash(ws) ==
    IF Len(ws) = 1 THEN ws[1] ELSE ws[1] \o <<"-">> \o joinDash(Tail(ws))

\* the keys a client is constructed with
Keys == {joinDash(ws) : ws \in UNION {[1..n -> KeyWords] : n \in 1..MaxKeyParts}}

\* apiKey.split('-')
RECURSIVE splitFrom(_, _, _)
splitFrom(s, i, part) ==
    IF i > Len(s) THEN <<part>>
    ELSE IF s[i] = "-" THEN <<part>> \o splitFrom(s, i + 1, <<>>)
    ELSE splitFrom(s, i + 1, Append(part, s[i]))

split(s) == splitFrom(s, 1, <<>>)

\* CONST.BASE_URL[name]: the configured URLs, a property every object
\* inherits, or undefined
BASE_URL(name) ==
    CASE name = <<"p","r","o","d","u","c","t","i","o","n">> ->
             Str("https://production-gameflip.fingershock.com/api/v1")
      [] name = <<"t","e","s","t">> ->
             Str("https://test-gameflip.fingershock.com/api/v1")
      [] name = <<"d","e","v","e","l","o","p","m","e","n","t">> ->
             Str("http://localhost:3000/api/v1")
      [] name = <<"c","o","n","s","t","r","u","c","t","o","r">> ->
             [t |-> "function", name |-> "Object"]
      [] OTHER -> Undefined

\* variant: the environment is always looked up
selectBaseUrlLookup(key) == BASE_URL(split(key)[1])
\* (split.length == 1) ? CONST.BASE_URL.production : CONST.BASE_URL[split[0]]
selectBaseUrl(key) ==
    IF Len(split(key)) = 1 THEN BASE_URL(<<"p","r","o","d","u","c","t","i","o","n">>)
    ELSE BASE_URL(split(key)[1])

\* new GfApi(key, secret)
\* the TOTP secret of the documentation, given without options, and a
\* secret issued with a period of its own
DocSecret == [secret |-> "S3CR3T"]
LongPeriodSecret == [secret |-> "S3CR3T-60", period |-> 60]
Secrets == {DocSecret, LongPeriodSecret}

\* Object.assign(target, source): the properties of source are copied
\* over those of target
assign(target, source) ==
    [f \in DOMAIN target \cup DOMAIN source |->
        IF f \in DOMAIN source THEN source[f] ELSE target[f]]

\* new GfApi(apiKey, secret)
GfApi(key, sec) ==
    [apiKey |-> key,
     secret |-> assign([encoding |-> "base32", algorithm |-> "sha1",
                        digits |-> TotpDigits, period |-> TotpPeriod], sec),
     baseUrl |-> selectBaseUrl(key)]

apiKey == client.apiKey
secret == client.secret
baseUrl == client.baseUrl

\* Speakeasy.totp(secret): the one-time code of the secret for the time
\* step, of the length secret.period, that holds instant t (ms)
totp(sec, t) == [secret |-> sec.secret, digits |-> sec.digits,
                 counter |-> (t \div 1000) \div sec.period]

\* variant: a counter-based code, the counter being the number of requests
\* signed so far
_authorizationHeaderHotp(t) ==
    [scheme |-> "GFAPI", key |-> apiKey,
     code |-> [secret |-> secret.secret, digits |-> secret.digits,
               counter |-> Len(requests)]]
\* variant: another scheme tag
_authorizationHeaderBearer(t) ==
    [scheme |-> "Bearer", key |-> apiKey, code |-> totp(secret, t)]
_authorizationHeader(t) == [scheme |-> "GFAPI", key |-> apiKey, code |-> totp(secret, t)]

HttpErrors(statusCode, statusMessage) ==
    [t |-> "HttpError", statusCode |-> statusCode, message |-> statusMessage]

\* ------------------------------------------------------ the servers
\* The listing server presents a finite chain of pages: page k < P carries
\* the continuation of page k+1, the last page carries next_page null or
\* no next_page at all.  A page's data is absent, empty or holds items.
LastNext == {Null, Undefined}

ServerSet ==
    UNION {{[data |-> d, last |-> l] : d \in [1..P -> {"absent", "empty", "items"}],
                                      l \in LastNext} : P \in 1..MaxPages}

\* the listing served to a run of concurrent operations: two pages of
\* items, the second without next_page
PipelineServers ==
    {[data |-> [k \in 1..2 |-> "items"], last |-> Undefined]}

NumPagesOf(srv) == Cardinality(DOMAIN srv.data)

DataOf(srv, k) ==
    CASE srv.data[k] = "absent" -> Undefined
      [] srv.data[k] = "empty" -> Arr(<<>>)
      [] OTHER -> Arr(<<k>>)

\* the page a list URL addresses: a built URL addresses page 1
PageOfUrl(url) == IF url.t = "url" THEN url.page ELSE 1

HttpOk == [statusCode |-> Num(200), statusMessage |-> Str("OK")]
HttpBad == [statusCode |-> Num(400), statusMessage |-> Str("Bad Request")]
HttpUnavailable == [statusCode |-> Num(503), statusMessage |-> Str("Service Unavailable")]

PrimaryBody(status, data, next_page, error) ==
    [t |-> "object", status |-> status, data |-> data, next_page |-> next_page,
     error |-> error]

ErrorBody(code, message) == [t |-> "object", code |-> code, message |-> message]

\* the response of the listing server to a GET of page k
PageResponse(srv, k) ==
    [data |-> PrimaryBody(Str("SUCCESS"), DataOf(srv, k),
                          IF k < NumPagesOf(srv) THEN PageUrl(k + 1) ELSE srv.last,
                          Undefined),
     response |-> HttpOk]

\* the error objects a failure body can carry (none, or code and message
\* each absent, null or set)
ErrorObjects ==
    {Undefined} \cup {ErrorBody(c, m) : c \in {Undefined, Null, Num(422)},
                                        m \in {Undefined, Null, Str("trade hold")}}

\* every body the primary API can answer with, and no body at all
PrimaryResponses ==
    {[data |-> PrimaryBody(st, d, n, e), response |-> h] :
        st \in {Str("SUCCESS"), Str("FAIL"), Undefined},
        d \in {Undefined, Null, Arr(<<>>), Arr(<<7>>)},
        n \in {Undefined, Null, PageUrl(2)},
        e \in ErrorObjects, h \in {HttpOk, HttpBad}}
    \cup {[data |-> Undefined, response |-> HttpUnavailable]}

\* the answers a run of concurrent operations draws from: a failure with
\* an error object, and a success with data
FailureResponses ==
    {[data |-> PrimaryBody(Str("FAIL"), Undefined, Undefined,
                           ErrorBody(Num(422), Str("trade hold"))),
      response |-> HttpBad]}

ObjectResponses ==
    {[data |-> PrimaryBody(Str("SUCCESS"), Arr(<<7>>), Undefined, Undefined),
      response |-> HttpOk]}

\* responses of the inventory (secondary) server
SteamBody(success, more_items, assets, last_assetid) ==
    [t |-> "object", success |-> success, more_items |-> more_items,
     assets |-> assets, last_assetid |-> last_assetid]

SteamResponses ==
    {[data |-> SteamBody(su, m, a, l), response |-> h] :
        su \in {Bool(TRUE), Bool(FALSE), Undefined},
        m \in {Undefined, Null, Bool(TRUE)},
        a \in {Undefined, Null, Arr(<<>>), Arr(<<5>>)},
        l \in {Undefined, Null, Str("99")}, h \in {HttpOk, HttpUnavailable}}
    \cup {[data |-> Undefined, response |-> HttpUnavailable]}

\* inventory failures whose body carries an application error object
SteamErrorResponses ==
    {[data |-> [error |-> e] @@ SteamBody(Bool(FALSE), Undefined, Undefined, Undefined),
      response |-> HttpUnavailable] : e \in ErrorObjects \ {Undefined}}

\* the inventory answers a run of concurrent operations draws from
InventoryResponses ==
    {[data |-> SteamBody(Bool(TRUE), Undefined, Arr(<<5>>), Str("99")),
      response |-> HttpOk]}
    \cup {[data |-> SteamBody(Bool(FALSE), Undefined, Undefined, Undefined),
           response |-> HttpUnavailable]}

\* the transport promise rejects instead of delivering a result
TransportFailure == [t |-> "rejected"]

Pending == [t |-> "pending"]
TransportError == [t |-> "TransportError"]
\* the "no more data" result
Empty == Return(Null)

\* A normalizer run is the ordered list of its effects: log lines, the
\* write of the cursor into the query object, and the final return or throw.
LogStep(level, msg) == [step |-> "log", level |-> level, msg |-> msg]
SetStep(v) == [step |-> "set", value |-> v]
ReturnStep(v) == [step |-> "return", out |-> Return(v)]
ThrowStep(e) == [step |-> "throw", out |-> Throw(e)]

\* if (query) { query.<cursor> = value; } return payload;
\* under 'use strict' the assignment throws when query is a primitive
\* that is truthy (a string, a number, true)
writeAndReturn(q, value, payload) ==
    IF ~Truthy(q) THEN <<ReturnStep(payload)>>
    ELSE IF q.t \in {"object", "array"} THEN <<SetStep(value), ReturnStep(payload)>>
    ELSE <<ThrowStep(TypeError)>>

\* a fresh client; the caller's query objects are new, or carry the null
\* cursor the caller has set to stop
Init ==
    /\ now = 0
    /\ nextPermitted = 0
    /\ queue = <<>>
    /\ ops = <<>>
    /\ requests = <<>>
    /\ log = <<>>
    /\ \E c \in {Undefined, Null} :
          /\ query = [t |-> "object", status |-> Str("onsale"), nextPage |-> c]
          /\ steamQuery = [t |-> "object", count |-> Num(10), start_assetid |-> c]
    /\ server \in PipelineServers
    /\ client = GfApi(DocKey, DocSecret)

\* ------------------------------------------------------ rate limiter
\* variant: the newest caller is served first
acquireFront(q, id) == <<id>> \o q
\* acquire(): the caller joins the limiter's queue
acquire(q, id) == Append(q, id)

\* the limiter may grant its oldest caller
GrantReady == queue # <<>> /\ now >= nextPermitted

\* ------------------------------------------------------- operations
\* this._entry(text), not awaited by its callers: the synchronous part
\* calls this.rateLimit() and suspends
_entry(id) == queue' = acquire(queue, id)

\* this.client.<method>Promise(url, args): the transport call starts now
send(id, method, url, headers, body) ==
    requests' = Append(requests, [op |-> id, method |-> method, url |-> url,
                                  headers |-> headers, body |-> body, at |-> now])

NewOp(kind, q) ==
    ops' = Append(ops, [kind |-> kind, query |-> q, callAt |-> now, grantAt |-> -1,
                        result |-> Undefined, steps |-> <<>>, out |-> Pending])

\* an operation that returns null before _entry and the transport
ShortCircuit(kind, q) ==
    /\ ops' = Append(ops, [kind |-> kind, query |-> q, callAt |-> now, grantAt |-> -1,
                           result |-> Undefined, steps |-> <<ReturnStep(Null)>>,
                           out |-> Empty])
    /\ UNCHANGED <<now, nextPermitted, queue, requests, log, query, steamQuery, server, client>>

\* an operation that throws in its entry point, before _entry and the
\* transport
ThrownAtCall(kind, q, e) ==
    /\ ops' = Append(ops, [kind |-> kind, query |-> q, callAt |-> now, grantAt |-> -1,
                           result |-> Undefined, steps |-> <<ThrowStep(e)>>,
                           out |-> Throw(e)])
    /\ UNCHANGED <<now, nextPermitted, queue, requests, log, query, steamQuery, server, client>>

BuiltUrl(uri, q) == [t |-> "built", base |-> baseUrl, uri |-> uri, qs |-> queryString(q)]

_get(uri) ==
    /\ _entry(Len(ops) + 1)
    /\ send(Len(ops) + 1, "GET", BuiltUrl(uri, Null),
            [Authorization |-> _authorizationHeader(now), ContentType |-> Undefined],
            Undefined)
    /\ NewOp("get", "none")
    /\ UNCHANGED <<now, nextPermitted, log, query, steamQuery, server, client>>

\* variant: the cursor is never tested
listCursorNever(q) == FALSE
\* query.nextPage === null
listCursorIsNull(q) == prop(q, "nextPage") = Null

\* variant: the URL is always built from the query
listTargetRebuilt(uri, q) == BuiltUrl(uri, q)
\* query.nextPage || `${this.baseUrl}/${uri}${Util.queryString(query)}`
listTarget(uri, q) ==
    IF Truthy(prop(q, "nextPage")) THEN prop(q, "nextPage") ELSE BuiltUrl(uri, q)

\* q is the value of the query argument; arg names what the caller
\* passed: "query" for the caller's query object, "default" for nothing
\* where the parameter has a default, "undefined" for nothing where it has
\* none
_getList(uri, q, arg) ==
    IF prop(q, "nextPage") = Throw(TypeError)
    THEN ThrownAtCall("list", arg, TypeError)
    ELSE IF listCursorIsNull(q)
    THEN ShortCircuit("list", arg)
    ELSE /\ _entry(Len(ops) + 1)
         /\ send(Len(ops) + 1, "GET", listTarget(uri, q),
                 [Authorization |-> _authorizationHeader(now), ContentType |-> Undefined],
                 Undefined)
         /\ NewOp("list", arg)
         /\ UNCHANGED <<now, nextPermitted, log, query, steamQuery, server, client>>

\* listing_search(query), called with the caller's query object or
\* without an argument
listing_search(arg) ==
    _getList("listing", IF arg = "query" THEN query ELSE Undefined, arg)

\* CONST.ESCROW_STATUS.LISTED
LISTED == Str("listed")

\* bulk_mine_get() called without an argument: query defaults to the
\* string CONST.ESCROW_STATUS.LISTED
bulk_mine_get == _getList("steam/bulk/mine", LISTED, "default")

_post(uri, data) ==
    /\ _entry(Len(ops) + 1)
    /\ send(Len(ops) + 1, "POST", BuiltUrl(uri, Null),
            [Authorization |-> _authorizationHeader(now),
             ContentType |-> Str("application/json")],
            IF Truthy(data) THEN data ELSE Undefined)
    /\ NewOp("post", "none")
    /\ UNCHANGED <<now, nextPermitted, log, query, steamQuery, server, client>>

_put(uri, data) ==
    /\ _entry(Len(ops) + 1)
    /\ send(Len(ops) + 1, "PUT", BuiltUrl(uri, Null),
            [Authorization |-> _authorizationHeader(now),
             ContentType |-> Str("application/json")],
            IF Truthy(data) THEN data ELSE Undefined)
    /\ NewOp("put", "none")
    /\ UNCHANGED <<now, nextPermitted, log, query, steamQuery, server, client>>

_patch(uri, data) ==
    /\ _entry(Len(ops) + 1)
    /\ send(Len(ops) + 1, "PATCH", BuiltUrl(uri, Null),
            [Authorization |-> _authorizationHeader(now),
             ContentType |-> Str("application/json-patch+json")],
            data)
    /\ NewOp("patch", "none")
    /\ UNCHANGED <<now, nextPermitted, log, query, steamQuery, server, client>>

\* query.start_assetid === null
steamCursorIsNull(q) == prop(q, "start_assetid") = Null

\* CONST.STEAM.CONTEXT_ID[appId] || CONST.STEAM.CONTEXT_ID.DEFAULT
contextIdOf(appId) == IF appId \in {"433850", "295110"} THEN "1" ELSE "2"

\* the value of the query parameter (query = {} by default) when the
\* caller passes its query object, nothing, or null
steamQueryValue(arg) ==
    CASE arg = "steamQuery" -> steamQuery
      [] arg = "default" -> EmptyObject
      [] OTHER -> Null

steam_inventory_get(profileid, appId, arg) ==
    IF prop(steamQueryValue(arg), "start_assetid") = Throw(TypeError)
    THEN ThrownAtCall("inventory", arg, TypeError)
    ELSE IF steamCursorIsNull(steamQueryValue(arg))
    THEN ShortCircuit("inventory", arg)
    ELSE /\ _entry(Len(ops) + 1)
         /\ send(Len(ops) + 1, "GET",
                 [t |-> "steam", profileid |-> profileid, appId |-> appId,
                  contextId |-> contextIdOf(appId),
                  qs |-> queryString(steamQueryValue(arg))],
                 [Authorization |-> Undefined, ContentType |-> Undefined],
                 Undefined)
         /\ NewOp("inventory", arg)
         /\ UNCHANGED <<now, nextPermitted, log, query, steamQuery, server, client>>

\* ------------------------------------------------- result normalizers
\* variant: the cursor is never written back
normalizeNoCursor(result, q) ==
    LET apiData == IF Truthy(result.data) THEN result.data
                   ELSE PrimaryBody(Undefined, Undefined, Undefined, Undefined)
    IN  IF isNull(apiData.next_page) /\ emptyArray(apiData.data)
        THEN <<LogStep("trace", [kind |-> "SUCCESS"]), ReturnStep(Null)>>
        ELSE <<LogStep("trace", [kind |-> "SUCCESS"]), ReturnStep(apiData.data)>>
\* variant: a failure is logged and swallowed
normalizeSwallow(result, q) ==
    <<LogStep("trace", [kind |-> "FAIL"]), ReturnStep(Null)>>
\* variant: a failure is reported with the raw HTTP status only
normalizeRawStatus(result, q) ==
    LET apiData == IF Truthy(result.data) THEN result.data
                   ELSE PrimaryBody(Undefined, Undefined, Undefined, Undefined)
        response == result.response
    IN  IF apiData.status = Str("SUCCESS")
        THEN IF isNull(apiData.next_page) /\ emptyArray(apiData.data)
             THEN <<LogStep("trace", [kind |-> "SUCCESS"]), ReturnStep(Null)>>
             ELSE <<LogStep("trace", [kind |-> "SUCCESS"])>>
                  \o writeAndReturn(q, options(<<apiData.next_page>>), apiData.data)
        ELSE <<LogStep("trace", [kind |-> "FAIL", statusCode |-> response.statusCode,
                                 statusMessage |-> response.statusMessage]),
               ThrowStep(HttpErrors(response.statusCode, response.statusMessage))>>
\* variant: no more data when next_page is null or data is empty
normalizeEitherEmpty(result, q) ==
    LET apiData == IF Truthy(result.data) THEN result.data
                   ELSE PrimaryBody(Undefined, Undefined, Undefined, Undefined)
    IN  IF isNull(apiData.next_page) \/ emptyArray(apiData.data)
        THEN <<LogStep("trace", [kind |-> "SUCCESS"]), ReturnStep(Null)>>
        ELSE <<LogStep("trace", [kind |-> "SUCCESS"])>>
             \o writeAndReturn(q, options(<<apiData.next_page>>), apiData.data)
\* variant: the cursor is written before the no-more-data test
normalizeWriteFirst(result, q) ==
    LET apiData == IF Truthy(result.data) THEN result.data
                   ELSE PrimaryBody(Undefined, Undefined, Undefined, Undefined)
    IN  IF apiData.status = Str("SUCCESS")
        THEN <<LogStep("trace", [kind |-> "SUCCESS"])>>
             \o writeAndReturn(q, options(<<apiData.next_page>>),
                               IF isNull(apiData.next_page) /\ emptyArray(apiData.data)
                               THEN Null ELSE apiData.data)
        ELSE <<LogStep("trace", [kind |-> "FAIL"]),
               ThrowStep(HttpErrors(result.response.statusCode,
                                    result.response.statusMessage))>>
\* _result after `await resultPromise` has produced result; q is the
\* query argument (null by default)
normalize(result, q) ==
    LET apiData == IF Truthy(result.data) THEN result.data
                   ELSE PrimaryBody(Undefined, Undefined, Undefined, Undefined)
    IN  IF apiData.status = Str("SUCCESS")
        THEN IF isNull(apiData.next_page) /\ emptyArray(apiData.data)
             THEN <<LogStep("trace", [kind |-> "SUCCESS"]), ReturnStep(Null)>>
             ELSE <<LogStep("trace", [kind |-> "SUCCESS"])>>
                  \o writeAndReturn(q, options(<<apiData.next_page>>), apiData.data)
        ELSE LET error == IF Truthy(apiData.error) THEN apiData.error
                          ELSE ErrorBody(Undefined, Undefined)
                 response == result.response
                 statusCode == options(<<error.code, response.statusCode>>)
                 statusMessage == options(<<error.message, response.statusMessage>>)
             IN  <<LogStep("trace", [kind |-> "FAIL", statusCode |-> statusCode,
                                     statusMessage |-> statusMessage]),
                   ThrowStep(HttpErrors(statusCode, statusMessage))>>

\* variant: the assets are returned instead of the response object
steamNormalizeAssets(result, q) ==
    LET apiData == IF Truthy(result.data) THEN result.data
                   ELSE SteamBody(Undefined, Undefined, Undefined, Undefined)
    IN  IF Truthy(apiData.success)
        THEN IF isNull(apiData.more_items) /\ emptyArray(apiData.assets)
             THEN <<LogStep("trace", [kind |-> "SUCCESS"]), ReturnStep(Null)>>
             ELSE <<LogStep("trace", [kind |-> "SUCCESS"])>>
                  \o writeAndReturn(q, options(<<apiData.last_assetid>>), apiData.assets)
        ELSE LET response == result.response
             IN  <<LogStep("trace", [kind |-> "FAIL", statusCode |-> response.statusCode,
                                     statusMessage |-> response.statusMessage]),
                   ThrowStep(HttpErrors(response.statusCode, response.statusMessage))>>
\* _steamResult after `await resultPromise` has produced result
steamNormalize(result, q) ==
    LET apiData == IF Truthy(result.data) THEN result.data
                   ELSE SteamBody(Undefined, Undefined, Undefined, Undefined)
    IN  IF Truthy(apiData.success)
        THEN IF isNull(apiData.more_items) /\ emptyArray(apiData.assets)
             THEN <<LogStep("trace", [kind |-> "SUCCESS"]), ReturnStep(Null)>>
             ELSE <<LogStep("trace", [kind |-> "SUCCESS"])>>
                  \o writeAndReturn(q, options(<<apiData.last_assetid>>), apiData)
        ELSE LET response == result.response
             IN  <<LogStep("trace", [kind |-> "FAIL", statusCode |-> response.statusCode,
                                     statusMessage |-> response.statusMessage]),
                   ThrowStep(HttpErrors(response.statusCode, response.statusMessage))>>

\* `await resultPromise` when the transport promise rejects
rejected == <<ThrowStep(TransportError)>>

\* the effects of a normalizer run
IsLog(st) == st.step = "log"
IsSet(st) == st.step = "set"

Logged(id, steps) ==
    LET ls == SelectSeq(steps, IsLog)
    IN  [k \in 1..Len(ls) |-> [op |-> id, level |-> ls[k].level, msg |-> ls[k].msg]]

\* variant: a cursor that was written once is not written again
CursorAfterKeep(cur, steps) ==
    LET ss == SelectSeq(steps, IsSet)
    IN  IF Len(ss) = 0 \/ cur # Undefined THEN cur ELSE ss[Len(ss)].value
CursorAfter(cur, steps) ==
    LET ss == SelectSeq(steps, IsSet)
    IN  IF Len(ss) = 0 THEN cur ELSE ss[Len(ss)].value

Settle(id, r, steps) ==
    /\ ops' = [ops EXCEPT ![id].out = steps[Len(steps)].out, ![id].steps = steps,
                          ![id].result = r]
    /\ log' = log \o Logged(id, steps)

RequestOf(id) == requests[CHOOSE k \in 1..Len(requests) : requests[k].op = id]

\* what the transport can deliver for the request of operation id in a
\* run of concurrent operations
Responses(id) ==
    (IF ops[id].kind = "list"
     THEN {PageResponse(server, PageOfUrl(RequestOf(id).url))} \cup FailureResponses
     ELSE ObjectResponses \cup FailureResponses) \cup {TransportFailure}

\* variant: a failed operation is sent again
requestsAfterRetry(id, steps) ==
    IF steps[Len(steps)].step = "throw"
    THEN Append(requests, [RequestOf(id) EXCEPT !.at = now])
    ELSE requests
\* the transport invocations after a normalizer run of operation id: the
\* normalizers send nothing
requestsAfter(id, steps) == requests

\* the query argument the entry point of operation id hands to _result
queryArg(id) ==
    CASE ops[id].query = "query" -> query
      [] ops[id].query = "steamQuery" -> steamQuery
      [] ops[id].query = "default" /\ ops[id].kind = "list" -> LISTED
      [] ops[id].query = "default" /\ ops[id].kind = "inventory" -> EmptyObject
      [] OTHER -> Null

\* _result from `await resultPromise` on: the transport promise of
\* operation id settles with r
_result(id, delivered) ==
    /\ ops[id].out = Pending
    /\ ops[id].kind # "inventory"
    /\ \E r \in delivered :
          LET steps == IF r = TransportFailure THEN rejected
                       ELSE normalize(r, queryArg(id))
          IN  /\ Settle(id, r, steps)
              /\ query' = IF ops[id].query = "query"
                          THEN [query EXCEPT !.nextPage = CursorAfter(query.nextPage, steps)]
                          ELSE query
              /\ requests' = requestsAfter(id, steps)
    /\ UNCHANGED <<now, nextPermitted, queue, steamQuery, server, client>>

\* _steamResult from `await resultPromise` on
_steamResult(id, delivered) ==
    /\ ops[id].out = Pending
    /\ ops[id].kind = "inventory"
    /\ \E r \in delivered :
          LET steps == IF r = TransportFailure THEN rejected
                       ELSE steamNormalize(r, queryArg(id))
          IN  /\ Settle(id, r, steps)
              /\ steamQuery' = IF ops[id].query = "steamQuery"
                               THEN [steamQuery EXCEPT !.start_assetid =
                                        CursorAfter(steamQuery.start_assetid, steps)]
                               ELSE steamQuery
              /\ requests' = requestsAfter(id, steps)
    /\ UNCHANGED <<now, nextPermitted, queue, query, server, client>>

\* continuation of _entry: the limiter grants its oldest caller, which
\* then writes the entry line to the log
_entryGranted ==
    /\ GrantReady
    /\ nextPermitted' = now + RateInterval
    /\ queue' = Tail(queue)
    /\ ops' = [ops EXCEPT ![Head(queue)].grantAt = now]
    /\ log' = Append(log, [op |-> Head(queue), level |-> "debug",
                           msg |-> [kind |-> "ENTRY"]])
    /\ UNCHANGED <<now, requests, query, steamQuery, server, client>>

\* time passes; a due timer of the limiter fires before the clock moves on
Tick ==
    /\ now + TickMs <= MaxTime
    /\ ~GrantReady
    /\ now' = now + TickMs
    /\ UNCHANGED <<nextPermitted, queue, ops, requests, log, query, steamQuery, server, client>>

\* operations issued at any time, also before earlier ones complete
Next ==
    \/ Len(ops) < MaxOps /\ _get("account/me/profile")
    \/ Len(ops) < MaxOps /\ \E arg \in {"query", "undefined"} : listing_search(arg)
    \/ Len(ops) < MaxOps /\ bulk_mine_get
    \/ Len(ops) < MaxOps /\ _post("steam/bulk", Null)
    \/ Len(ops) < MaxOps /\ _put("steam/bulk/1", Arr(<<1>>))
    \/ Len(ops) < MaxOps /\ _patch("listing/1", Arr(<<1>>))
    \/ Len(ops) < MaxOps /\ \E arg \in {"steamQuery", "default", "null"} :
                                 steam_inventory_get("76561198000000000", "730", arg)
    \/ \E id \in 1..Len(ops) : _result(id, Responses(id))
    \/ \E id \in 1..Len(ops) : _steamResult(id, InventoryResponses \cup {TransportFailure})
    \/ _entryGranted
    \/ Tick

Spec == Init /\ [][Next]_vars

\* ---------------------------------------------- sequential list calls
\* A caller that repeats the list call on one query object, each call
\* after the previous one has settled, against a server that answers
\* every request with the page it addresses.
SeqInit ==
    /\ now = 0
    /\ nextPermitted = 0
    /\ queue = <<>>
    /\ ops = <<>>
    /\ requests = <<>>
    /\ log = <<>>
    /\ query = [t |-> "object", status |-> Str("onsale"), nextPage |-> Undefined]
    /\ steamQuery = [t |-> "object", count |-> Num(10), start_assetid |-> Undefined]
    /\ server \in ServerSet
    /\ client = GfApi(DocKey, DocSecret)

Settled == \A id \in 1..Len(ops) : ops[id].out # Pending

SeqNext ==
    \/ Settled /\ Len(ops) < MaxPages + 2 /\ listing_search("query")
    \/ \E id \in 1..Len(ops) :
          _result(id, {PageResponse(server, PageOfUrl(RequestOf(id).url))})
    \/ _entryGranted
    \/ Tick

SeqSpec == SeqInit /\ [][SeqNext]_vars

\* ------------------------------------------------ one normalizer run
\* One operation whose transport delivers any response of its API.
NormNext ==
    \/ ops = <<>> /\ _get("account/me/profile")
    \/ ops = <<>> /\ \E arg \in {"query", "undefined"} : listing_search(arg)
    \/ ops = <<>> /\ bulk_mine_get
    \/ ops = <<>> /\ \E arg \in {"steamQuery", "default", "null"} :
                         steam_inventory_get("76561198000000000", "730", arg)
    \/ \E id \in 1..Len(ops) : _result(id, PrimaryResponses \cup {TransportFailure})
    \/ \E id \in 1..Len(ops) :
          _steamResult(id, SteamResponses \cup SteamErrorResponses \cup {TransportFailure})
    \/ _entryGranted
    \/ Tick

NormSpec == Init /\ [][NormNext]_vars

\* ------------------------------------------------- signing over time
\* Operations issued one after the other over several periods of the
\* one-time code: the clock moves by half a period.
HalfPeriodMs == (TotpPeriod * 1000) \div 2

\* a client made with any of the secrets
SignInit ==
    /\ now = 0
    /\ nextPermitted = 0
    /\ queue = <<>>
    /\ ops = <<>>
    /\ requests = <<>>
    /\ log = <<>>
    /\ query = [t |-> "object", status |-> Str("onsale"), nextPage |-> Undefined]
    /\ steamQuery = [t |-> "object", count |-> Num(10), start_assetid |-> Undefined]
    /\ server \in PipelineServers
    /\ \E sec \in Secrets : client = GfApi(DocKey, sec)

SignTick ==
    /\ (now + HalfPeriodMs) \div (TotpPeriod * 1000) < MaxBuckets
    /\ ~GrantReady
    /\ now' = now + HalfPeriodMs
    /\ UNCHANGED <<nextPermitted, queue, ops, requests, log, query, steamQuery, server, client>>

SignNext ==
    \/ Settled /\ Len(ops) < MaxOps + 1 /\ _get("account/me/profile")
    \/ Settled /\ Len(ops) < MaxOps + 1 /\ _patch("listing/1", Arr(<<1>>))
    \/ \E id \in 1..Len(ops) : _result(id, ObjectResponses)
    \/ _entryGranted
    \/ SignTick

SignSpec == SignInit /\ [][SignNext]_vars

\* ------------------------------------------------ waiting for the grant
\* Callers that invoke operations at any time, also at the same instant,
\* and wait for the limiter; the clock moves by half the limiter's interval
\* and runs long enough for the last caller of a full queue to be granted.
HalfIntervalMs == RateInterval \div 2

WaitTick ==
    /\ now + HalfIntervalMs <= (MaxOps + 2) * RateInterval
    /\ ~GrantReady
    /\ now' = now + HalfIntervalMs
    /\ UNCHANGED <<nextPermitted, queue, ops, requests, log, query, steamQuery, server, client>>

WaitNext ==
    \/ Len(ops) < MaxOps + 1 /\ _get("account/me/profile")
    \/ Len(ops) < MaxOps + 1 /\ steam_inventory_get("76561198000000000", "730", "steamQuery")
    \/ _entryGranted
    \/ WaitTick

WaitSpec == Init /\ [][WaitNext]_vars

\* ------------------------------------------------ clients of any key
\* A client constructed with any key, and its first request.
KeyInit ==
    /\ now = 0
    /\ nextPermitted = 0
    /\ queue = <<>>
    /\ ops = <<>>
    /\ requests = <<>>
    /\ log = <<>>
    /\ query = [t |-> "object", status |-> Str("onsale"), nextPage |-> Undefined]
    /\ steamQuery = [t |-> "object", count |-> Num(10), start_assetid |-> Undefined]
    /\ server \in PipelineServers
    /\ \E key \in Keys : client = GfApi(key, DocSecret)

KeyNext ==
    \/ ops = <<>> /\ _get("account/me/profile")
    \/ ops = <<>> /\ listing_search("query")
    \/ _entryGranted

KeySpec == KeyInit /\ [][KeyNext]_vars

\* ------------------------------------------- calls repeated on a query
\* A caller that repeats list and inventory calls on its query objects,
\* each call after the previous one has settled, whatever the answer was:
\* a page with a continuation, no more data, a null payload, a failure, or
\* no answer at all.
RetryResponses ==
    {[data |-> PrimaryBody(Str("SUCCESS"), d, n, Undefined), response |-> HttpOk] :
        d \in {Arr(<<7>>), Arr(<<>>), Null}, n \in {Null, PageUrl(2)}}
    \cup FailureResponses

SteamRetryResponses ==
    InventoryResponses
    \cup {[data |-> SteamBody(Bool(TRUE), Undefined, a, Undefined), response |-> HttpOk] :
             a \in {Arr(<<5>>), Arr(<<>>)}}

RetryNext ==
    \/ Settled /\ Len(ops) < MaxOps + 1 /\ listing_search("query")
    \/ Settled /\ Len(ops) < MaxOps + 1
          /\ steam_inventory_get("76561198000000000", "730", "steamQuery")
    \/ \E id \in 1..Len(ops) : _result(id, RetryResponses \cup {TransportFailure})
    \/ \E id \in 1..Len(ops) :
          _steamResult(id, SteamRetryResponses \cup {TransportFailure})
    \/ _entryGranted
    \/ Tick

RetrySpec == Init /\ [][RetryNext]_vars

\* --------------------------------------- list calls racing on a query
\* List calls issued on one query object at any time, also while earlier
\* ones are in flight; the answers to one URL can differ from call to call.
RaceNext ==
    \/ Len(ops) < MaxOps /\ listing_search("query")
    \/ \E id \in 1..Len(ops) : _result(id, RetryResponses \cup {TransportFailure})
    \/ _entryGranted
    \/ Tick

RaceSpec == Init /\ [][RaceNext]_vars

\* ============================================================ claims
\* the operations that called acquire() (those that reached _entry)
Acquired(id) == \E k \in 1..Len(requests) : requests[k].op = id
Granted(id) == ops[id].grantAt >= 0
IsEntry(e) == e.msg.kind = "ENTRY"

\* C1: the start instants of any two transport requests (GET/POST/PUT/PATCH,
\* primary or inventory) of one client instance are at least the
\* rate-limit interval (1000 ms) apart.
C1_TransportStartsSpaced ==
    \A i, j \in 1..Len(requests) :
        i < j => requests[j].at - requests[i].at >= 1000

\* C2: the grant instants of the limiter are pairwise at least one interval
\* (1000 ms) apart, so no two callers are granted at the same instant, and
\* the limiter's time of next permitted send never decreases.
C2_GrantsSpaced ==
    /\ [](\A i, j \in 1..Len(ops) :
            (i # j /\ Granted(i) /\ Granted(j)) =>
                \/ ops[i].grantAt - ops[j].grantAt >= 1000
                \/ ops[j].grantAt - ops[i].grantAt >= 1000)
    /\ [][nextPermitted' >= nextPermitted]_vars

\* two callers invoked acquire() at the same instant and both were granted
C2_Witness ==
    \E i, j \in 1..Len(ops) :
        i < j /\ ops[i].callAt = ops[j].callAt /\ Granted(i) /\ Granted(j)

\* C3: grants are FIFO (a caller that invoked acquire() earlier is never
\* granted after a later caller), and the transport requests start in the
\* order of the operations' invocation; the order of completion is free.
C3_FifoAdmission ==
    /\ \A a, b \in 1..Len(log) :
          (a < b /\ IsEntry(log[a]) /\ IsEntry(log[b])) => log[a].op < log[b].op
    /\ \A i, j \in 1..Len(ops) :
          (i < j /\ Acquired(i) /\ Granted(j)) =>
              (Granted(i) /\ ops[i].grantAt <= ops[j].grantAt)
    /\ \A a, b \in 1..Len(requests) : a < b => requests[a].op < requests[b].op

\* two granted operations, the later one completed while the earlier one
\* is still in flight
C3_Witness ==
    \E i, j \in 1..Len(ops) :
        /\ i < j /\ Granted(i) /\ Granted(j)
        /\ ops[i].out = Pending /\ ops[j].out # Pending

\* C4: a list call whose query has nextPage null, or an inventory call whose
\* query has start_assetid null, returns Empty without a transport
\* invocation, without acquiring the rate limiter and without changing the
\* query object.
C4_NullCursorShortCircuits ==
    [][(/\ Len(ops') = Len(ops) + 1
        /\ \/ /\ ops'[Len(ops')].kind = "list" /\ ops'[Len(ops')].query = "query"
              /\ query.nextPage = Null
           \/ /\ ops'[Len(ops')].kind = "inventory"
              /\ ops'[Len(ops')].query = "steamQuery"
              /\ steamQuery.start_assetid = Null)
       => (/\ ops'[Len(ops')].out = Empty
           /\ requests' = requests
           /\ queue' = queue /\ nextPermitted' = nextPermitted /\ log' = log
           /\ query' = query /\ steamQuery' = steamQuery)]_vars

\* a list call and an inventory call have returned Empty without a request
C4_Witness ==
    \E i, j \in 1..Len(ops) :
        /\ ops[i].kind = "list" /\ ops[i].out = Empty /\ ~Acquired(i)
        /\ ops[j].kind = "inventory" /\ ops[j].out = Empty /\ ~Acquired(j)
        /\ requests = <<>>

\* every page of the chain holds items
AllItems(srv) == \A k \in DOMAIN srv.data : srv.data[k] = "items"

\* C5: against a server that presents P >= 1 pages of items chained by
\* next_page, sequential list calls on one query object return pages 1..P
\* in order, every later call returns Empty, and no page is requested twice.
C5_PagesInOrder ==
    AllItems(server) =>
        /\ \A k \in 1..Len(ops) :
              ops[k].out # Pending =>
                  ops[k].out = IF k <= NumPagesOf(server) THEN Return(Arr(<<k>>))
                               ELSE Empty
        /\ \A a, b \in 1..Len(requests) :
              a # b => requests[a].url # requests[b].url
        /\ Len(requests) <= NumPagesOf(server)

\* three pages of items were returned and two further calls returned Empty
C5_Witness ==
    /\ AllItems(server) /\ NumPagesOf(server) >= 3
    /\ Len(ops) >= NumPagesOf(server) + 2
    /\ \A id \in 1..Len(ops) : ops[id].out # Pending

\* an earlier call has already returned Empty (the caller loop is over)
EmptyBefore(id) == \E j \in 1..(id - 1) : ops[j].out = Empty

\* C6: for every page chain the server presents, the caller loop that
\* repeats the list call on one query object until it receives Empty
\* requests strictly later pages call after call and has received Empty
\* after at most (number of pages + 1) calls.
C6_LoopTerminates ==
    /\ \A k \in 1..Len(ops) :
          (k = NumPagesOf(server) + 1 /\ ops[k].out # Pending) =>
              \E j \in 1..k : ops[j].out = Empty
    /\ \A a, b \in 1..Len(requests) :
          (a < b /\ ~EmptyBefore(requests[b].op)) =>
              PageOfUrl(requests[a].url) < PageOfUrl(requests[b].url)

\* the loop ended with its (number of pages + 1)-th call on the longest chain
C6_Witness ==
    /\ NumPagesOf(server) >= 3
    /\ Len(ops) = NumPagesOf(server) + 1
    /\ ops[Len(ops)].out = Empty
    /\ ~EmptyBefore(Len(ops))

\* the transport delivered a response to operation id
HasResponse(id) == ops[id].result # Undefined /\ ops[id].result # TransportFailure

BodyField(r, f) == IF r.data.t = "object" THEN r.data[f] ELSE Undefined

\* the response of operation id is a failure: primary, a status that is
\* not 'SUCCESS'; inventory, a falsy success
IsFailure(id) ==
    /\ HasResponse(id)
    /\ IF ops[id].kind = "inventory"
       THEN ~Truthy(BodyField(ops[id].result, "success"))
       ELSE BodyField(ops[id].result, "status") # Str("SUCCESS")

\* C7: an operation whose response is a failure (primary: status is not
\* 'SUCCESS'; inventory: success is falsy) yields neither a value nor Empty:
\* it throws an error carrying statusCode and message, after the FAIL trace
\* line was logged.
C7_FailureThrows ==
    \A id \in 1..Len(ops) :
        IsFailure(id) =>
            /\ ops[id].out.t = "throw"
            /\ ops[id].out.err.t = "HttpError"
            /\ {"statusCode", "message"} \subseteq DOMAIN ops[id].out.err
            /\ Len(ops[id].steps) = 2
            /\ ops[id].steps[1].step = "log" /\ ops[id].steps[1].msg.kind = "FAIL"
            /\ ops[id].steps[2].step = "throw"
            /\ \E k \in 1..Len(log) : log[k].op = id /\ log[k].msg.kind = "FAIL"

\* an inventory call was answered with a failure and threw
C7_Witness ==
    \E id \in 1..Len(ops) :
        ops[id].kind = "inventory" /\ IsFailure(id) /\ ops[id].out.t = "throw"

\* field f of the application error object of response r
ErrorField(r, f) ==
    IF BodyField(r, "error").t = "object" THEN BodyField(r, "error")[f] ELSE Undefined

Present(x) == x # Undefined /\ x # Null

\* C8: for a primary-API failure the thrown statusCode is the error
\* object's code when that is present (non-null), else the raw HTTP status
\* code; the message is the error object's message when present, else the
\* raw HTTP status text; each is chosen on its own.
C8_ErrorFieldsPreferred ==
    \A id \in 1..Len(ops) :
        (IsFailure(id) /\ ops[id].kind # "inventory") =>
            LET r == ops[id].result
                code == ErrorField(r, "code")
                message == ErrorField(r, "message")
            IN  /\ ops[id].out.t = "throw"
                /\ ops[id].out.err.statusCode =
                       IF Present(code) THEN code ELSE r.response.statusCode
                /\ ops[id].out.err.message =
                       IF Present(message) THEN message ELSE r.response.statusMessage

\* a failure whose error object has a code and no message: the code comes
\* from the error object, the message from the HTTP response
C8_Witness ==
    \E id \in 1..Len(ops) :
        /\ IsFailure(id) /\ ops[id].kind # "inventory"
        /\ ErrorField(ops[id].result, "code") = Num(422)
        /\ ErrorField(ops[id].result, "message") = Undefined
        /\ ops[id].out = Throw(HttpErrors(Num(422), Str("Bad Request")))

\* the transport invocations made for operation id
RequestsFor(id) == {k \in 1..Len(requests) : requests[k].op = id}

\* C9: an operation invokes the transport at most once; when the transport
\* fails or the response is a failure, the error is surfaced from that one
\* attempt and nothing further is sent.
C9_NoRetry ==
    \A id \in 1..Len(ops) :
        /\ Cardinality(RequestsFor(id)) <= 1
        /\ (ops[id].result = TransportFailure \/ IsFailure(id)) =>
              /\ Cardinality(RequestsFor(id)) = 1
              /\ RequestOf(id).at = ops[id].callAt
              /\ ops[id].out.t = "throw"
              /\ ops[id].out.err.t \in {"TransportError", "HttpError"}

\* one operation failed in the transport, another with a failure response
C9_Witness ==
    \E i, j \in 1..Len(ops) :
        /\ ops[i].out = Throw(TransportError)
        /\ ops[j].out.t = "throw" /\ ops[j].out.err.t = "HttpError"
        /\ Len(requests) = 2

\* C10 as stated: every outbound request carries an Authorization header
\* 'GFAPI <key>:<code>', <code> being the one-time code of the credential.
C10_EveryRequestAuthorized ==
    \A k \in 1..Len(requests) :
        requests[k].headers.Authorization =
            [scheme |-> "GFAPI", key |-> apiKey, code |-> totp(secret, requests[k].at)]

\* C10 amended: every request to the primary API (GET, list GET, POST, PUT,
\* PATCH) carries the Authorization header 'GFAPI <key>:<code>' with the
\* one-time code of the instant the operation was invoked; the inventory
\* request is sent without an Authorization header.
C10_PrimaryRequestsAuthorized ==
    \A k \in 1..Len(requests) :
        requests[k].headers.Authorization =
            IF requests[k].url.t = "steam" THEN Undefined
            ELSE [scheme |-> "GFAPI", key |-> apiKey,
                  code |-> totp(secret, requests[k].at)]

\* an inventory request and a primary request have been sent
C10_Witness ==
    \E a, b \in 1..Len(requests) :
        /\ requests[a].url.t = "steam" /\ requests[a].headers.Authorization = Undefined
        /\ requests[b].method = "POST" /\ requests[b].headers.Authorization.scheme = "GFAPI"

\* the primary API answered operation id with status 'SUCCESS'
IsSuccess(id) ==
    /\ HasResponse(id) /\ ops[id].kind # "inventory"
    /\ BodyField(ops[id].result, "status") = Str("SUCCESS")

\* the no-more-data case of a primary response: next_page null or absent
\* and data an empty array or absent
NoMoreData(r) ==
    /\ BodyField(r, "next_page") \in {Null, Undefined}
    /\ BodyField(r, "data") \in {Arr(<<>>), Undefined}

\* the operation was called with the caller's query object
QueryObjectSupplied(id) == ops[id].query = "query"

\* the query argument of the operation is a string: bulk_mine_get()
\* called without an argument
StringQuery(id) == ops[id].query = "default"

\* C11: a primary-API response with status 'SUCCESS' that is not the
\* no-more-data case returns data.data; when a query object was supplied
\* query.nextPage becomes data.next_page, or null when next_page is absent;
\* otherwise nothing is written.  bulk_mine_get() without an argument
\* breaks it: its query is the string 'listed', and the write of
\* query.nextPage throws before the payload is returned.
C11_SuccessPayloadAndCursor ==
    \A id \in 1..Len(ops) :
        (IsSuccess(id) /\ ~NoMoreData(ops[id].result)) =>
            LET r == ops[id].result
                next_page == BodyField(r, "next_page")
            IN  /\ ops[id].out = Return(BodyField(r, "data"))
                /\ QueryObjectSupplied(id) =>
                      query.nextPage = IF Present(next_page) THEN next_page ELSE Null
                /\ ~QueryObjectSupplied(id) =>
                      \A k \in 1..Len(ops[id].steps) : ops[id].steps[k].step # "set"

\* C12 as stated: a primary-API response with status 'SUCCESS' yields Empty
\* exactly when next_page is null or absent and data.data is empty or
\* absent; every other SUCCESS response yields its payload, which is not
\* Empty.
C12_EmptyExactlyWhen ==
    \A id \in 1..Len(ops) :
        IsSuccess(id) =>
            IF NoMoreData(ops[id].result)
            THEN ops[id].out = Empty
            ELSE /\ ops[id].out = Return(BodyField(ops[id].result, "data"))
                 /\ ops[id].out # Empty

\* C12 amended: a SUCCESS response yields Empty when next_page is null or
\* absent and data.data is empty or absent.  Every other SUCCESS response
\* takes the payload path: a call whose query argument is a string
\* (bulk_mine_get() without an argument) throws a TypeError there; any
\* other call returns data.data as it is, which is Empty when data.data is
\* null and the payload, not Empty, otherwise.
C12_EmptyWhenNoMoreDataOrNull ==
    \A id \in 1..Len(ops) :
        IsSuccess(id) =>
            LET r == ops[id].result
            IN  CASE NoMoreData(r) -> ops[id].out = Empty
                  [] ~NoMoreData(r) /\ StringQuery(id) -> ops[id].out = Throw(TypeError)
                  [] OTHER ->
                        IF BodyField(r, "data") = Null
                        THEN ops[id].out = Empty
                        ELSE /\ ops[id].out = Return(BodyField(r, "data"))
                             /\ ops[id].out # Empty

\* a list call answered with data null and a continuation returned the
\* Empty value after the continuation was written into the query
C12_Witness ==
    \E id \in 1..Len(ops) :
        /\ IsSuccess(id) /\ ops[id].kind = "list" /\ ops[id].out = Empty
        /\ BodyField(ops[id].result, "data") = Null
        /\ BodyField(ops[id].result, "next_page") = PageUrl(2)
        /\ query.nextPage = PageUrl(2)

\* C13: the inventory normalizer classifies every response: success truthy
\* with more_items null or absent and assets empty or absent yields Empty;
\* any other success-truthy response yields the whole response object and
\* sets start_assetid of the call's query (the caller's object, or the
\* default object of a call without one) to last_assetid, or to null when
\* that is absent; a success-falsy response throws an error carrying the raw HTTP status
\* code and status message.
C13_InventoryClassified ==
    \A id \in 1..Len(ops) :
        (ops[id].kind = "inventory" /\ HasResponse(id)) =>
            LET r == ops[id].result
                last_assetid == BodyField(r, "last_assetid")
            IN  IF Truthy(BodyField(r, "success"))
                THEN IF /\ BodyField(r, "more_items") \in {Null, Undefined}
                        /\ BodyField(r, "assets") \in {Arr(<<>>), Undefined}
                     THEN ops[id].out = Empty
                     ELSE LET cursor == IF Present(last_assetid) THEN last_assetid
                                        ELSE Null
                          IN  /\ ops[id].out = Return(r.data)
                              /\ \E k \in 1..Len(ops[id].steps) :
                                    ops[id].steps[k] = SetStep(cursor)
                              /\ ops[id].query = "steamQuery" =>
                                    steamQuery.start_assetid = cursor
                ELSE ops[id].out =
                         Throw(HttpErrors(r.response.statusCode, r.response.statusMessage))

\* an inventory call answered with assets and last_assetid "99" returned
\* the response object and its query now starts at "99"
C13_Witness ==
    \E id \in 1..Len(ops) :
        /\ ops[id].kind = "inventory" /\ HasResponse(id)
        /\ BodyField(ops[id].result, "assets") = Arr(<<5>>)
        /\ BodyField(ops[id].result, "last_assetid") = Str("99")
        /\ ops[id].out = Return(ops[id].result.data)
        /\ steamQuery.start_assetid = Str("99")

\* the secret the client was made with, told by its secret string
GivenSecret == CHOOSE sec \in Secrets : sec.secret = client.secret.secret

\* the period (s) of the credential: the one the secret was given with,
\* 30 when it was given without
CredentialPeriod ==
    IF "period" \in DOMAIN GivenSecret THEN GivenSecret.period ELSE 30

\* the period bucket of the credential that holds instant t (ms)
BucketOf(t) == (t \div 1000) \div CredentialPeriod

C15_PipelineOrder ==
    /\ \A k \in 1..Len(requests) :
          /\ Granted(requests[k].op)
          /\ ops[requests[k].op].grantAt <= requests[k].at
    /\ \A id \in 1..Len(ops) :
          (Acquired(id) /\ ops[id].out # Pending) => Granted(id)

\* the callers of acquire() that were waiting when operation id called it,
\* operation id included
WaitingAt(id) ==
    {j \in 1..id : Acquired(j) /\ (j = id \/ ~Granted(j) \/ ops[j].grantAt > ops[id].callAt)}

\* C16: acquire() only delays: the caller that finds N - 1 callers waiting
\* (the Nth of N concurrent callers) is granted at most N x 1000 ms after
\* its call, and it is never found still waiting after that time.
C16_BoundedWait ==
    \A id \in 1..Len(ops) :
        Acquired(id) =>
            (IF Granted(id) THEN ops[id].grantAt ELSE now) - ops[id].callAt
                <= Cardinality(WaitingAt(id)) * 1000

\* two callers at the same instant, right after a grant: the second one
\* was granted after two intervals, the worst case of the bound
C16_Witness ==
    \E id \in 1..Len(ops) :
        /\ Cardinality(WaitingAt(id)) = 2
        /\ Granted(id)
        /\ ops[id].grantAt - ops[id].callAt = 2 * 1000

\* field f of the application error object in the body of response r, of
\* either API
AppErrorField(r, f) ==
    IF r.data.t = "object" /\ "error" \in DOMAIN r.data /\ r.data.error.t = "object"
    THEN r.data.error[f] ELSE Undefined

\* C17 as stated: for every failure response, of the primary API and of the
\* inventory API, an error code or message supplied in the body takes
\* precedence over the raw HTTP status code or text.
C17_AppErrorFirstEverywhere ==
    \A id \in 1..Len(ops) :
        IsFailure(id) =>
            LET code == AppErrorField(ops[id].result, "code")
                message == AppErrorField(ops[id].result, "message")
            IN  /\ Present(code) => ops[id].out.err.statusCode = code
                /\ Present(message) => ops[id].out.err.message = message

\* C17 amended: for every failure response of the primary API an error code
\* or message supplied in the body takes precedence over the raw HTTP
\* status; for the inventory API the error carries the raw HTTP status code
\* and text whatever error fields the body supplies.
C17_AppErrorFirstInPrimary ==
    \A id \in 1..Len(ops) :
        IsFailure(id) =>
            LET r == ops[id].result
                code == AppErrorField(r, "code")
                message == AppErrorField(r, "message")
            IN  IF ops[id].kind = "inventory"
                THEN /\ ops[id].out.err.statusCode = r.response.statusCode
                     /\ ops[id].out.err.message = r.response.statusMessage
                ELSE /\ Present(code) => ops[id].out.err.statusCode = code
                     /\ Present(message) => ops[id].out.err.message = message

\* an inventory failure whose body supplies code 422 and a message threw
\* the raw HTTP status 503 and its text
C17_Witness ==
    \E id \in 1..Len(ops) :
        /\ ops[id].kind = "inventory" /\ IsFailure(id)
        /\ AppErrorField(ops[id].result, "code") = Num(422)
        /\ AppErrorField(ops[id].result, "message") = Str("trade hold")
        /\ ops[id].out = Throw(HttpErrors(Num(503), Str("Service Unavailable")))

\* the fields of a query object that hold a value, the cursor included
FilterFields(q) == [f \in {g \in DOMAIN q \ {"t"} : q[g] # Undefined} |-> q[f]]

\* C18: a list call whose cursor is not null sends its request to the
\* continuation held in query.nextPage, as it was returned, when there is
\* one; otherwise to the URL made of the base URL, the endpoint path and
\* the fields of the query.
C18_ContinuationIsTarget ==
    [][(Len(requests') = Len(requests) + 1 /\ ops'[Len(ops')].kind = "list") =>
          requests'[Len(requests')].url =
              IF query.nextPage.t = "url"
              THEN query.nextPage
              ELSE [t |-> "built",
                    base |-> Str("https://test-gameflip.fingershock.com/api/v1"),
                    uri |-> "listing",
                    qs |-> [t |-> "qs", params |-> FilterFields(query)]]]_vars

\* the first call went to the built URL, the second to the continuation of
\* page 2, the third to the continuation of page 3
C18_Witness ==
    /\ Len(requests) >= 3
    /\ requests[1].url.t = "built"
    /\ requests[2].url = PageUrl(2)
    /\ requests[3].url = PageUrl(3)

\* the response of operation id is a success that carries a continuation
\* and an empty payload (an empty array, or no data at all)
ContinuationWithoutData(id) ==
    /\ IsSuccess(id)
    /\ BodyField(ops[id].result, "next_page").t = "url"
    /\ BodyField(ops[id].result, "data") \in {Arr(<<>>), Undefined}

\* C19: a list call answered with a continuation and an empty payload does
\* not return Empty: it returns the payload and writes the continuation
\* into query.nextPage, and the next call on the query goes to that
\* continuation.
C19_ContinuationSurvivesEmptyPage ==
    \A id \in 1..Len(ops) :
        ContinuationWithoutData(id) =>
            LET next_page == BodyField(ops[id].result, "next_page")
            IN  /\ ops[id].out = Return(BodyField(ops[id].result, "data"))
                /\ ops[id].out # Empty
                /\ \E k \in 1..Len(ops[id].steps) : ops[id].steps[k] = SetStep(next_page)
                /\ id = Len(ops) => query.nextPage = next_page
                /\ id < Len(ops) =>
                      /\ Acquired(id + 1)
                      /\ RequestOf(id + 1).url = next_page

\* page 1 came with an empty array and the continuation of page 2: the
\* call returned the empty array and the next call asked for page 2
C19_Witness ==
    /\ Len(ops) >= 2
    /\ ContinuationWithoutData(1)
    /\ ops[1].out = Return(Arr(<<>>))
    /\ RequestOf(2).url = PageUrl(2)

\* string s begins with string p
StartsWith(s, p) == Len(s) >= Len(p) /\ SubSeq(s, 1, Len(p)) = p

HasDash(s) == \E i \in 1..Len(s) : s[i] = "-"

ProductionUrl == Str("https://production-gameflip.fingershock.com/api/v1")
TestUrl == Str("https://test-gameflip.fingershock.com/api/v1")
DevelopmentUrl == Str("http://localhost:3000/api/v1")

\* the base URL goes by the key as the claim says for keys without
\* prefix and keys that begin with 'test-' or 'development-', and the
\* requests of the client go to that base URL
PrefixSelects ==
    /\ ~HasDash(client.apiKey) => client.baseUrl = ProductionUrl
    /\ StartsWith(client.apiKey, <<"t","e","s","t","-">>) => client.baseUrl = TestUrl
    /\ StartsWith(client.apiKey, <<"d","e","v","e","l","o","p","m","e","n","t","-">>) =>
          client.baseUrl = DevelopmentUrl
    /\ \A k \in 1..Len(requests) : requests[k].url.base = client.baseUrl

\* C20 as stated: a key without prefix selects the production base URL, a
\* key that begins with 'test-' or 'development-' the test or development
\* base URL, and for every key the base URL is one of the three configured.
C20_BaseUrlAlwaysConfigured ==
    /\ PrefixSelects
    /\ client.baseUrl \in {ProductionUrl, TestUrl, DevelopmentUrl}

\* C20 amended: a key without prefix selects the production base URL, a key
\* that begins with 'production-', 'test-' or 'development-' the base URL of
\* that name; for a key with a dash and any other text before its first
\* dash the base URL is none of the three configured.
C20_BaseUrlByKnownPrefix ==
    /\ PrefixSelects
    /\ StartsWith(client.apiKey, <<"p","r","o","d","u","c","t","i","o","n","-">>) =>
          client.baseUrl = ProductionUrl
    /\ (/\ HasDash(client.apiKey)
        /\ ~StartsWith(client.apiKey, <<"p","r","o","d","u","c","t","i","o","n","-">>)
        /\ ~StartsWith(client.apiKey, <<"t","e","s","t","-">>)
        /\ ~StartsWith(client.apiKey, <<"d","e","v","e","l","o","p","m","e","n","t","-">>))
       => client.baseUrl \notin {ProductionUrl, TestUrl, DevelopmentUrl}

\* a client of a key that begins with 'staging-' has sent a request, and
\* its base URL is undefined
C20_Witness ==
    /\ StartsWith(client.apiKey, <<"s","t","a","g","i","n","g","-">>)
    /\ client.baseUrl = Undefined
    /\ Len(requests) = 1
    /\ requests[1].url.base = Undefined

\* operation record o ended with Empty or with an error
EndedEmptyOrThrown(o) == o.out = Empty \/ o.out.t = "throw"

\* operation record o ended with an error, or with Empty by the
\* no-more-data test of its normalizer
EndedNoMoreDataOrThrown(o) ==
    \/ o.out.t = "throw"
    \/ /\ o.out = Empty /\ o.result # Undefined
       /\ IF o.kind = "inventory"
          THEN /\ BodyField(o.result, "more_items") \in {Null, Undefined}
               /\ BodyField(o.result, "assets") \in {Arr(<<>>), Undefined}
          ELSE NoMoreData(o.result)

\* the last operation of the given kind invoked so far (0: none)
LastOfKind(kind) ==
    LET S == {i \in 1..Len(ops) : ops[i].kind = kind}
    IN  IF S = {} THEN 0 ELSE CHOOSE i \in S : \A j \in S : j <= i

\* a step keeps the query objects when an operation settles in a way
\* Ended describes, changes them only when an operation settles with a
\* returned value, and a call that follows a call so ended on the same
\* query object sends the request of that call again
QueryWrittenOnlyUnless(Ended(_)) ==
    /\ \A id \in 1..Len(ops) :
          (ops[id].out = Pending /\ ops'[id].out # Pending /\ Ended(ops'[id])) =>
              (query' = query /\ steamQuery' = steamQuery)
    /\ (query' # query \/ steamQuery' # steamQuery) =>
          \E id \in 1..Len(ops) :
              /\ ops[id].out = Pending /\ ops'[id].out.t = "return"
              /\ ~Ended(ops'[id])
    /\ Len(requests') = Len(requests) + 1 =>
          LET new == requests'[Len(requests')]
              last == LastOfKind(ops'[new.op].kind)
          IN  (last > 0 /\ Acquired(last) /\ Ended(ops[last])) =>
                  new.url = RequestOf(last).url

\* C21 as stated: the query object is written only when a payload is
\* returned; when an operation ends with Empty, with a failure or with a
\* transport failure its query object is unchanged, and a further call on
\* that query object sends the same request again.
C21_QueryKeptOnEmptyOrError == [][QueryWrittenOnlyUnless(EndedEmptyOrThrown)]_vars

\* C21 amended: the query object is unchanged when an operation ends with
\* Empty by the no-more-data test, with a failure or with a transport
\* failure, and a further call on that query object sends the same request
\* again; it is written only on the payload path, which a SUCCESS response
\* with data null takes as well, returning null.
C21_QueryKeptOnNoMoreDataOrError ==
    [][QueryWrittenOnlyUnless(EndedNoMoreDataOrThrown)]_vars

\* a list call ended with a failure, the next one without answer, and the
\* third call sent the request of the first once more; the cursor is as new
C21_Witness ==
    /\ Len(requests) = 3
    /\ ops[1].kind = "list" /\ ops[1].out.t = "throw" /\ ops[1].out.err.t = "HttpError"
    /\ ops[2].kind = "list" /\ ops[2].out = Throw(TransportError)
    /\ requests[3].url = requests[1].url
    /\ query.nextPage = Undefined

\* operation id is a list call whose response wrote the cursor
WroteCursor(id) ==
    /\ ops[id].kind = "list"
    /\ \E s \in 1..Len(ops[id].steps) : ops[id].steps[s].step = "set"

\* the positions in the log of the responses that wrote the cursor, in
\* the order they were normalized
CursorWrites == {k \in 1..Len(log) : log[k].msg.kind = "SUCCESS" /\ WroteCursor(log[k].op)}

\* the cursor a response hands over: its next_page, null when absent
HandedOver(r) ==
    IF Present(BodyField(r, "next_page")) THEN BodyField(r, "next_page") ELSE Null

\* C22: issuing a list call reads the cursor and leaves the query as it is;
\* the cursor changes only in the step that normalizes a response, to the
\* value of that response; a list call issued while every earlier list
\* call is still in flight goes to the same URL as those; and the cursor
\* holds the value of the response, among those that wrote it, that was
\* normalized last.
C22_CursorReadAtCallWrittenAtResult ==
    /\ [](IF CursorWrites = {}
          THEN query.nextPage \in {Undefined, Null}
          ELSE LET k == CHOOSE k \in CursorWrites : \A j \in CursorWrites : j <= k
               IN  query.nextPage = HandedOver(ops[log[k].op].result))
    /\ [][/\ Len(requests') = Len(requests) + 1 =>
              /\ query' = query
              /\ requests'[Len(requests')].url =
                     IF query.nextPage.t = "url" THEN query.nextPage
                     ELSE [t |-> "built", base |-> client.baseUrl, uri |-> "listing",
                           qs |-> [t |-> "qs", params |-> FilterFields(query)]]
              /\ (\A i \in 1..Len(ops) : Acquired(i) => ops[i].out = Pending) =>
                     \A i \in 1..Len(requests) :
                         requests[i].url = requests'[Len(requests')].url
          /\ query' # query =>
              \E id \in 1..Len(ops) :
                  /\ ops[id].out = Pending /\ ops'[id].out.t = "return"
                  /\ query'.nextPage = HandedOver(ops'[id].result)]_vars

\* two list calls went to the same URL; the response of the second was
\* normalized first and wrote the continuation of page 2, the response of
\* the first was normalized last and wrote null: the cursor is null
C22_Witness ==
    /\ Len(requests) = 2
    /\ requests[1].url = requests[2].url
    /\ \E a, b \in CursorWrites :
          /\ a < b /\ log[a].op = 2 /\ log[b].op = 1
          /\ HandedOver(ops[2].result) = PageUrl(2)
          /\ HandedOver(ops[1].result) = Null
    /\ query.nextPage = Null
====
